---- MODULE Spec2Model ----
(***************************************************************************)
(* docker-volume-manager (src/src/main.rs): backup and restore of named    *)
(* docker volumes through one gzip-compressed tar archive.                 *)
(*                                                                         *)
(* Strings are TLA+ strings, format!() is concatenation (\o).  A path is   *)
(* the sequence of its segments ("./va/f" is <<".", "va", "f">>).  An      *)
(* Option<T> is a set: {} is None and {x} is Some(x).                      *)
(***************************************************************************)
EXTENDS Integers, Sequences, FiniteSets, TLC

\* ------------------------------------------------------------- bounds
MaxEntries == 3         \* entries of an inspected archive
MaxRel == 2             \* depth of a file below its volume directory
MaxVols == 2            \* volume names given to backup
MaxRuns == 2            \* commands run one after the other on the same path

\* ------------------------------------------------------- input domains
Vols == {"va", "vb"}
\* a path segment whose bytes are not valid UTF-8
BadName == "<FF>"
Platforms == {"unix", "windows"}

RECURSIVE Rel(_)
\* a relative file path of k segments: sub/.../sub/f
Rel(k) == IF k <= 1 THEN <<"f">> ELSE <<"sub">> \o Rel(k - 1)

\* ./<volume>/<relative path of one or more segments>
LayoutPaths == { <<".", v>> \o Rel(k) : v \in Vols, k \in 1..MaxRel }
\* "./", a volume's directory entry, a bare name, ./name, an undecodable name
OtherPaths == { <<".">>, <<".", "va">>, <<"f">>, <<".", "f">>, <<".", BadName, "f">> }
EntryPaths == LayoutPaths \cup OtherPaths
Malformed == [ok |-> FALSE, path |-> <<>>]
Entries == { [ok |-> TRUE, path |-> p] : p \in EntryPaths } \cup { Malformed }

Missing == [kind |-> "missing", entries |-> <<>>]
EmptyFile == [kind |-> "empty", entries |-> <<>>]
Garbage == [kind |-> "garbage", entries |-> <<>>]
Directory == [kind |-> "dir", entries |-> <<>>]
TarFile(es) == [kind |-> "tar", entries |-> es]
Plain(ps) == [i \in 1..Len(ps) |-> [ok |-> TRUE, path |-> ps[i]]]

Archives == UNION { { TarFile(es) : es \in [1..n -> Entries] } : n \in 0..MaxEntries }

\* the path given on the command line, by what the filesystem makes of it
PathCases ==
  { [name |-> "file", creatable |-> TRUE, has_parent |-> TRUE, text |-> TRUE,
     parent |-> "/data", filename |-> "backup.tgz"],
    [name |-> "root", creatable |-> FALSE, has_parent |-> FALSE, text |-> TRUE,
     parent |-> "", filename |-> ""],
    [name |-> "nontext", creatable |-> TRUE, has_parent |-> TRUE, text |-> FALSE,
     parent |-> "/data", filename |-> BadName],
    [name |-> "nodir", creatable |-> FALSE, has_parent |-> TRUE, text |-> TRUE,
     parent |-> "/gone", filename |-> "backup.tgz"] }

VolumeLists == UNION { [1..n -> Vols] : n \in 1..MaxVols }

\* ------------------------------------------------------ pure functions
NoDup(s) == \A i, j \in 1..Len(s) : i # j => s[i] # s[j]
Range(s) == { s[i] : i \in 1..Len(s) }

\* std::path::Path::components: a "." is kept only as the first segment
Components(raw) ==
  IF raw = <<>> THEN <<>>
  ELSE <<raw[1]>> \o SelectSeq(Tail(raw), LAMBDA s : s # "." /\ s # "")

\* std::path::Path::parent
Parent(p) ==
  IF p = <<>> \/ p[Len(p)] = "/" THEN {} ELSE { SubSeq(p, 1, Len(p) - 1) }

RECURSIVE AncestorsOf(_)
\* std::path::Path::ancestors, collected: the path itself first, "" last
AncestorsOf(p) ==
  <<p>> \o (IF Parent(p) = {} THEN <<>> ELSE AncestorsOf(CHOOSE q \in Parent(p) : TRUE))

\* std::path::Path::file_name
file_name(p) ==
  IF p = <<>> \/ p[Len(p)] \in {".", "..", "/"} THEN {} ELSE { p[Len(p)] }

\* OsStr::to_str
to_str(s) == IF s = BadName THEN {} ELSE {s}

\* Vec::get
get(v, i) == IF i >= 0 /\ i < Len(v) THEN { v[i + 1] } ELSE {}

neg_index_clamped(v, index) ==
  IF index < 0
  THEN LET i == Len(v) + index IN IF i < 0 THEN get(v, 0) ELSE get(v, i)
  ELSE get(v, index)

neg_index_from_front(v, index) ==
  IF index < 0 THEN get(v, (0 - index) - 1) ELSE get(v, index)

neg_index(v, index) ==
  IF index < 0
  THEN LET i == Len(v) + index IN IF i < 0 THEN {} ELSE get(v, i)
  ELSE get(v, index)

RECURSIVE dedup(_)
\* Vec::dedup: removes consecutive repeated elements
dedup(v) ==
  IF Len(v) <= 1 THEN v
  ELSE IF v[1] = v[2] THEN dedup(Tail(v))
  ELSE <<v[1]>> \o dedup(Tail(v))

NegIdx == -3

\* the closure of get_tar_top_level_list: one entry path to Option<&str>
top_level_of(path) ==
  LET anc == neg_index(AncestorsOf(Components(path)), NegIdx)
      fname == UNION { file_name(a) : a \in anc }
  IN  UNION { to_str(n) : n \in fname }

RECURSIVE filter_map(_)
filter_map(tree) ==
  IF tree = <<>> THEN <<>>
  ELSE LET o == top_level_of(Head(tree))
       IN  (IF o = {} THEN <<>> ELSE << CHOOSE n \in o : TRUE >>) \o filter_map(Tail(tree))

top_level_list(tree) == dedup(filter_map(tree))

\* Entry::path: fails on windows when the bytes are not UTF-8, never on unix
path_decodes(plat, p) == plat = "unix" \/ \A i \in 1..Len(p) : to_str(p[i]) # {}

\* get_tar_directory_tree; empty_ok is what the gzip decoder makes of a zero-byte file
get_tar_directory_tree(f, plat, empty_ok) ==
  CASE f.kind = "missing" -> [res |-> "Err", tree |-> <<>>]
    [] f.kind \in {"dir", "garbage"} -> [res |-> "Err", tree |-> <<>>]
    [] f.kind = "empty" -> [res |-> IF empty_ok THEN "Ok" ELSE "Err", tree |-> <<>>]
    [] OTHER ->
         IF \E i \in 1..Len(f.entries) : ~f.entries[i].ok
         THEN [res |-> "Err", tree |-> <<>>]
         ELSE IF \E i \in 1..Len(f.entries) : ~path_decodes(plat, f.entries[i].path)
         THEN [res |-> "Panic", tree |-> <<>>]
         ELSE [res |-> "Ok", tree |-> [i \in 1..Len(f.entries) |-> f.entries[i].path]]

\* resolve_path: the outcome and the file it leaves at the path
resolve_path(p, f, create) ==
  LET made == IF create /\ f.kind = "missing" /\ p.creatable THEN EmptyFile ELSE f
  IN  IF create /\ f.kind = "missing" /\ ~p.creatable
      THEN [ok |-> FALSE, parent |-> "", filename |-> "", file |-> f]
      ELSE IF made.kind = "missing" \/ ~p.has_parent \/ ~p.text
      THEN [ok |-> FALSE, parent |-> "", filename |-> "", file |-> made]
      ELSE [ok |-> TRUE, parent |-> p.parent, filename |-> p.filename, file |-> made]

\* format!("--volume={}:/input/{}:ro", volume_name, volume_name)
backup_volume_arg(v) == "--volume=" \o v \o ":/input/" \o v \o ":ro"
\* format!("--volume={}:/output/{}:rw", volume_name, volume_name)
restore_volume_arg(v) == "--volume=" \o v \o ":/output/" \o v \o ":rw"

backup_args_unique(vs, parent, filename) ==
  <<"run", "--rm", "--volume=" \o parent \o ":/output">>
    \o [i \in 1..Len(dedup(vs)) |-> backup_volume_arg(dedup(vs)[i])]
    \o <<"alpine", "tar", "-czf", "/output/" \o filename, "-C", "/input", ".">>

\* the arguments backup gives to Command::new("docker")
backup_args(vs, parent, filename) ==
  <<"run", "--rm", "--volume=" \o parent \o ":/output">>
    \o [i \in 1..Len(vs) |-> backup_volume_arg(vs[i])]
    \o <<"alpine", "tar", "-czf", "/output/" \o filename, "-C", "/input", ".">>

\* the arguments restore gives to Command::new("docker")
restore_args(vs, parent, filename) ==
  <<"run", "--rm", "--volume=" \o parent \o ":/input">>
    \o [i \in 1..Len(vs) |-> restore_volume_arg(vs[i])]
    \o <<"alpine", "tar", "-xzf", "/input/" \o filename, "-C", "/output">>

\* ------------------------------------------- the runtime (docker + tar)
RECURSIVE volume_entries(_, _)
\* the entries tar writes for one volume mounted at /input/<v>: its directory,
\* then files down to depth k
volume_entries(v, k) ==
  IF k = 0 THEN << <<".", v>> >>
  ELSE volume_entries(v, k - 1) \o << <<".", v>> \o Rel(k) >>

RECURSIVE written_entries(_, _)
written_entries(order, k) ==
  IF order = <<>> THEN <<>>
  ELSE volume_entries(Head(order), k) \o written_entries(Tail(order), k)

\* tar -czf /output/<filename> -C /input . : "./", then each mounted volume's
\* tree, the volumes in the directory's own order
written_archive(order, k) == TarFile(Plain(<< <<".">> >> \o written_entries(order, k)))

Orders(S) == { o \in [1..Cardinality(S) -> S] : NoDup(o) }

\* ---------------------------------------------------------------- state
VARIABLES
  path,          \* the target (backup) or source (restore) path of the commands
  fs,            \* the file at that path
  runs,          \* commands started so far
  cmd,           \* "none", "backup" or "restore"
  pc,            \* position in the command
  volume_names,  \* backup's volume_names argument
  dir_tree,      \* get_tar_directory_tree's result
  vols,          \* restore's volume_names (get_tar_top_level_list's result)
  inspected,     \* outcome of get_tar_top_level_list: none, Ok, Err, Panic
  resolved,      \* resolve_path's result
  args,          \* the arguments of the spawned runtime
  spawned,       \* calls of spawn() in this command
  exit_status,   \* the runtime's exit status: none, zero, nonzero
  failed,        \* the stage that failed: none, Inspect, Resolve, Spawn, Wait
  result,        \* what main returns: none, Ok, Err, Panic
  trace,         \* the stages of this command, in order
  backed         \* the last backup that returned Ok: its volumes and exit status

vars == <<path, fs, runs, cmd, pc, volume_names, dir_tree, vols, inspected,
          resolved, args, spawned, exit_status, failed, result, trace, backed>>

NoPath == [ok |-> FALSE, parent |-> "", filename |-> ""]
NoBackup == [vs |-> <<>>, exit |-> "none"]

Fresh ==
  /\ dir_tree = <<>> /\ vols = <<>> /\ inspected = "none" /\ resolved = NoPath
  /\ args = <<>> /\ spawned = 0 /\ exit_status = "none" /\ failed = "none"
  /\ result = "none" /\ trace = <<>>

\* files found at the path before the first command
SampleArchives ==
  { TarFile(Plain(<< <<".">>, <<".", "va">>, <<".", "va", "f">> >>)),
    TarFile(Plain(<< <<".", "va", "f">>, <<".", "vb", "f">>, <<".", "va", "sub", "f">> >>)) }

Init ==
  /\ path \in PathCases
  /\ fs \in (CASE path.name = "root" -> {Directory}
               [] path.name = "nodir" -> {Missing}
               [] path.name = "nontext" -> {Missing, Garbage} \cup SampleArchives
               [] OTHER -> {Missing, EmptyFile, Garbage} \cup SampleArchives)
  /\ runs = 0 /\ cmd = "none" /\ pc = "idle" /\ volume_names = <<>>
  /\ backed = NoBackup
  /\ Fresh

\* ------------------------------------------------------------- actions
Reset ==
  /\ dir_tree' = <<>> /\ vols' = <<>> /\ inspected' = "none" /\ resolved' = NoPath
  /\ args' = <<>> /\ spawned' = 0 /\ exit_status' = "none" /\ failed' = "none"
  /\ result' = "none" /\ trace' = <<>>

\* main: Opt::Backup
StartBackup ==
  /\ pc \in {"idle", "done"} /\ runs < MaxRuns
  /\ \E vs \in VolumeLists : volume_names' = vs
  /\ cmd' = "backup" /\ pc' = "resolve" /\ runs' = runs + 1
  /\ Reset
  /\ UNCHANGED <<path, fs, backed>>

\* main: Opt::Restore
StartRestore ==
  /\ pc \in {"idle", "done"} /\ runs < MaxRuns
  /\ volume_names' = <<>>
  /\ cmd' = "restore" /\ pc' = "read" /\ runs' = runs + 1
  /\ Reset
  /\ UNCHANGED <<path, fs, backed>>

Fail(stage, how) ==
  /\ pc' = "done" /\ failed' = stage /\ result' = how

\* backup: resolve_path(target_str, true)?
backup_resolve ==
  /\ cmd = "backup" /\ pc = "resolve"
  /\ LET r == resolve_path(path, fs, TRUE) IN
       /\ fs' = r.file
       /\ trace' = Append(trace, "Resolve")
       /\ IF r.ok
          THEN /\ resolved' = [ok |-> TRUE, parent |-> r.parent, filename |-> r.filename]
               /\ pc' = "spawn"
               /\ UNCHANGED <<failed, result>>
          ELSE /\ Fail("Resolve", "Err")
               /\ UNCHANGED resolved
  /\ UNCHANGED <<path, runs, cmd, volume_names, dir_tree, vols, inspected, args,
                 spawned, exit_status, backed>>

\* backup: Command::new("docker") ... .spawn()?
backup_spawn ==
  /\ cmd = "backup" /\ pc = "spawn"
  /\ args' = backup_args(volume_names, resolved.parent, resolved.filename)
  /\ spawned' = spawned + 1
  /\ trace' = trace \o <<"Plan", "Execute">>
  /\ \E started \in BOOLEAN :
       IF started THEN pc' = "wait" /\ UNCHANGED <<failed, result>>
       ELSE Fail("Spawn", "Err")
  /\ UNCHANGED <<path, fs, runs, cmd, volume_names, dir_tree, vols, inspected,
                 resolved, exit_status, backed>>

\* backup: .wait()?; Ok(())
backup_wait ==
  /\ cmd = "backup" /\ pc = "wait"
  /\ \/ /\ Fail("Wait", "Err")
        /\ UNCHANGED <<fs, exit_status, backed>>
     \/ /\ NoDup(volume_names)   \* the runtime refuses one volume mounted twice
        /\ \E order \in Orders(Range(volume_names)), k \in 0..MaxRel :
             fs' = written_archive(order, k)
        /\ exit_status' = "zero"
        /\ pc' = "done" /\ result' = "Ok" /\ UNCHANGED failed
        /\ backed' = [vs |-> volume_names, exit |-> "zero"]
     \/ /\ fs' \in {fs, Garbage}
        /\ exit_status' = "nonzero"
        /\ pc' = "done" /\ result' = "Ok" /\ UNCHANGED failed
        /\ backed' = [vs |-> volume_names, exit |-> "nonzero"]
  /\ UNCHANGED <<path, runs, cmd, volume_names, dir_tree, vols, inspected,
                 resolved, args, spawned, trace>>

\* restore: get_tar_top_level_list: get_tar_directory_tree(archive_path)?
restore_read_tree ==
  /\ cmd = "restore" /\ pc = "read"
  /\ trace' = Append(trace, "Inspect")
  /\ \E plat \in Platforms, empty_ok \in BOOLEAN :
       LET r == get_tar_directory_tree(fs, plat, empty_ok) IN
         IF r.res = "Ok"
         THEN /\ dir_tree' = r.tree /\ pc' = "derive"
              /\ UNCHANGED <<failed, result, inspected>>
         ELSE /\ Fail("Inspect", r.res) /\ inspected' = r.res
              /\ UNCHANGED dir_tree
  /\ UNCHANGED <<path, fs, runs, cmd, volume_names, vols, resolved, args,
                 spawned, exit_status, backed>>

\* restore: get_tar_top_level_list: map, filter_map, dedup, Ok(...)
restore_top_level ==
  /\ cmd = "restore" /\ pc = "derive"
  /\ vols' = top_level_list(dir_tree)
  /\ inspected' = "Ok"
  /\ pc' = "resolve"
  /\ UNCHANGED <<path, fs, runs, cmd, volume_names, dir_tree, resolved, args,
                 spawned, exit_status, failed, result, trace, backed>>

restore_resolve_unchecked ==
  /\ cmd = "restore" /\ pc = "resolve"
  /\ LET r == resolve_path(path, fs, FALSE) IN
       /\ fs' = r.file
       /\ trace' = Append(trace, "Resolve")
       /\ resolved' = [ok |-> r.ok, parent |-> r.parent, filename |-> r.filename]
       /\ pc' = "spawn"
       /\ UNCHANGED <<failed, result>>
  /\ UNCHANGED <<path, runs, cmd, volume_names, dir_tree, vols, inspected, args,
                 spawned, exit_status, backed>>

\* restore: resolve_path(source_str, false)?
restore_resolve ==
  /\ cmd = "restore" /\ pc = "resolve"
  /\ LET r == resolve_path(path, fs, FALSE) IN
       /\ fs' = r.file
       /\ trace' = Append(trace, "Resolve")
       /\ IF r.ok
          THEN /\ resolved' = [ok |-> TRUE, parent |-> r.parent, filename |-> r.filename]
               /\ pc' = "spawn"
               /\ UNCHANGED <<failed, result>>
          ELSE /\ Fail("Resolve", "Err")
               /\ UNCHANGED resolved
  /\ UNCHANGED <<path, runs, cmd, volume_names, dir_tree, vols, inspected, args,
                 spawned, exit_status, backed>>

\* restore: Command::new("docker") ... .spawn()?
restore_spawn ==
  /\ cmd = "restore" /\ pc = "spawn"
  /\ args' = restore_args(vols, resolved.parent, resolved.filename)
  /\ spawned' = spawned + 1
  /\ trace' = trace \o <<"Plan", "Execute">>
  /\ \E started \in BOOLEAN :
       IF started THEN pc' = "wait" /\ UNCHANGED <<failed, result>>
       ELSE Fail("Spawn", "Err")
  /\ UNCHANGED <<path, fs, runs, cmd, volume_names, dir_tree, vols, inspected,
                 resolved, exit_status, backed>>

\* restore: .wait()?; Ok(())
restore_wait ==
  /\ cmd = "restore" /\ pc = "wait"
  /\ \/ /\ Fail("Wait", "Err")
        /\ UNCHANGED exit_status
     \/ /\ \E st \in {"zero", "nonzero"} : exit_status' = st
        /\ pc' = "done" /\ result' = "Ok" /\ UNCHANGED failed
  /\ UNCHANGED <<path, fs, runs, cmd, volume_names, dir_tree, vols, inspected,
                 resolved, args, spawned, trace, backed>>

Next ==
  \/ StartBackup
  \/ StartRestore
  \/ backup_resolve
  \/ backup_spawn
  \/ backup_wait
  \/ restore_read_tree
  \/ restore_top_level
  \/ restore_resolve
  \/ restore_spawn
  \/ restore_wait

Spec == Init /\ [][Next]_vars

\* -------------------- archive inspection alone, over every small archive
InitInspect ==
  /\ path \in { p \in PathCases : p.name = "file" }
  /\ fs \in Archives \cup {Missing, EmptyFile, Garbage}
  /\ runs = 1 /\ cmd = "restore" /\ pc = "read" /\ volume_names = <<>>
  /\ backed = NoBackup
  /\ Fresh

NextInspect ==
  \/ restore_read_tree
  \/ restore_top_level

SpecInspect == InitInspect /\ [][NextInspect]_vars

\* ---------------------------------------------------------------- claims
Inspected == cmd = "restore" /\ pc \notin {"idle", "read", "derive"}
Listed == Inspected /\ inspected = "Ok"
EntryPathsOf(f) == [i \in 1..Len(f.entries) |-> f.entries[i].path]
PlainName(s) == s \notin {".", "..", "", "/", BadName}

\* C1: a non-zero exit of the runtime makes the command fail, and the command
\* succeeds only when the runtime exited with status zero.
C1_NonZeroExitFails ==
  /\ (pc = "done" /\ exit_status = "nonzero") => result # "Ok"
  /\ (pc = "done" /\ result = "Ok") => exit_status = "zero"

\* ./<volume_name>/<one or more segments>
IsLayoutPath(p) ==
  Len(p) >= 3 /\ p[1] = "." /\ \A i \in 2..Len(p) : PlainName(p[i])
Contiguous(s) ==
  \A i, j, k \in 1..Len(s) : (i < j /\ j < k /\ s[i] = s[k]) => s[j] = s[i]
RECURSIVE FirstSeen(_)
FirstSeen(s) ==
  IF s = <<>> THEN <<>>
  ELSE LET r == FirstSeen(SubSeq(s, 1, Len(s) - 1))
       IN  IF s[Len(s)] \in Range(r) THEN r ELSE Append(r, s[Len(s)])
LayoutArchive(f) ==
  /\ f.kind = "tar"
  /\ \A i \in 1..Len(f.entries) : f.entries[i].ok /\ IsLayoutPath(f.entries[i].path)
  /\ Contiguous([i \in 1..Len(f.entries) |-> f.entries[i].path[2]])

\* C2: for an archive of entries ./<volume>/<path>, each volume's entries
\* contiguous, get_tar_top_level_list succeeds and returns the volume of each
\* entry, whatever its depth, in archive order with repeats collapsed.
C2_LayoutArchiveNames ==
  (Inspected /\ LayoutArchive(fs)) =>
    /\ inspected = "Ok"
    /\ vols = FirstSeen([i \in 1..Len(fs.entries) |-> fs.entries[i].path[2]])

C2_Witness ==
  /\ Listed
  /\ EntryPathsOf(fs) = << <<".", "va", "f">>, <<".", "va", "sub", "f">>, <<".", "vb", "f">> >>
  /\ vols = <<"va", "vb">>

\* C3: the list of volume names derived from an archive, whatever the order of
\* its entries, holds no name twice.
C3_NoNameTwice == Listed => NoDup(vols)

\* C4: backup spawns the runtime with run, --rm, the output mount, one read-only
\* mount per volume name in input order (none sorted, merged or left out), then
\* alpine tar -czf /output/<filename> -C /input .
C4_BackupArguments ==
  (cmd = "backup" /\ spawned >= 1) =>
    LET n == Len(volume_names) IN
      /\ Len(args) = n + 10
      /\ SubSeq(args, 1, 3) = <<"run", "--rm", "--volume=" \o path.parent \o ":/output">>
      /\ \A i \in 1..n :
           args[3 + i] = "--volume=" \o volume_names[i] \o ":/input/" \o volume_names[i] \o ":ro"
      /\ SubSeq(args, n + 4, n + 10) =
           <<"alpine", "tar", "-czf", "/output/" \o path.filename, "-C", "/input", ".">>

C4_Witness ==
  /\ cmd = "backup" /\ spawned = 1 /\ volume_names = <<"vb", "va">>
  /\ args[4] = "--volume=vb:/input/vb:ro" /\ args[5] = "--volume=va:/input/va:ro"

\* C5: restore mounts every derived volume read-write at /output/<v> and the
\* directory of the archive read-only at /input.
C5_RestoreMounts ==
  (cmd = "restore" /\ spawned >= 1) =>
    /\ \A v \in Range(vols) :
         \E i \in 1..Len(args) : args[i] = "--volume=" \o v \o ":/output/" \o v \o ":rw"
    /\ \E i \in 1..Len(args) : args[i] = "--volume=" \o resolved.parent \o ":/input:ro"

RoundTripAfterZeroExit ==
  (Inspected /\ backed.vs # <<>> /\ backed.exit = "zero") =>
    /\ inspected = "Ok"
    /\ NoDup(vols)
    /\ Range(vols) = Range(backed.vs)

Undecodable(f) ==
  \/ f.kind \in {"missing", "garbage", "dir"}
  \/ /\ f.kind = "tar"
     /\ \E i \in 1..Len(f.entries) :
          \/ ~f.entries[i].ok
          \/ \E j \in 1..Len(f.entries[i].path) : to_str(f.entries[i].path[j]) = {}

\* C7: an archive that cannot be opened, is no gzip stream, or holds a malformed
\* entry or an entry whose path is not text, makes inspection fail as a whole:
\* no list of names is returned.
C7_DecodeFailureAborts ==
  (Inspected /\ Undecodable(fs)) => (inspected \in {"Err", "Panic"} /\ vols = <<>>)

\* one name segment at the archive root: f or ./f
Depth1(p) == (Len(p) = 1 /\ PlainName(p[1])) \/ (Len(p) = 2 /\ p[1] = "." /\ PlainName(p[2]))
\* fewer than three ancestors: a single component (f, or ./ itself)
Shallow(p) == Len(Components(p)) <= 1

\* C8 as stated: an entry f or ./f adds no name; the other entries' names are unchanged.
C8_Depth1AddsNothing ==
  (Listed /\ \E i \in 1..Len(dir_tree) : Depth1(dir_tree[i])) =>
    vols = top_level_list(SelectSeq(dir_tree, LAMBDA p : ~Depth1(p)))

\* C8 amended: an entry of a single component (a bare f, or ./) adds no name and
\* no error; the other entries' names are unchanged.
C8_ShallowAddsNothing ==
  (Inspected /\ \E i \in 1..Len(dir_tree) : Shallow(dir_tree[i])) =>
    /\ inspected = "Ok"
    /\ vols = top_level_list(SelectSeq(dir_tree, LAMBDA p : ~Shallow(p)))
    /\ \A i \in 1..Len(dir_tree) :
         (Shallow(dir_tree[i]) /\ dir_tree[i] # <<>> /\ dir_tree[i][1] \in Range(vols))
           => \E j \in 1..Len(dir_tree) :
                ~Shallow(dir_tree[j]) /\ top_level_of(dir_tree[j]) = { dir_tree[i][1] }

C8_Witness ==
  /\ Listed
  /\ dir_tree = << <<"f">>, <<".", "va", "f">>, <<".">> >>
  /\ vols = <<"va">>

\* C9: restore resolves the source path before it opens the archive, so a
\* missing source is a path-resolution failure.
C9_ResolveBeforeInspect ==
  /\ (cmd = "restore" /\ trace # <<>>) => trace[1] = "Resolve"
  /\ (cmd = "restore" /\ pc = "done" /\ fs.kind = "missing") => failed = "Resolve"

\* C10: the runtime is spawned at most once and only after path resolution (and
\* for restore the inspection) succeeded; when an earlier stage fails nothing is
\* spawned and the command fails; a failed spawn or wait ends the command.
C10_SingleSpawnAfterStages ==
  /\ spawned <= 1
  /\ spawned = 1 =>
       /\ resolved.ok
       /\ failed \notin {"Inspect", "Resolve"}
       /\ cmd = "restore" => inspected = "Ok"
  /\ failed \in {"Inspect", "Resolve"} =>
       spawned = 0 /\ args = <<>> /\ pc = "done" /\ result \in {"Err", "Panic"}
  /\ failed \in {"Spawn", "Wait"} =>
       spawned = 1 /\ pc = "done" /\ result = "Err"

C10_Witness ==
  /\ cmd = "restore" /\ pc = "done" /\ failed = "Resolve"
  /\ inspected = "Ok" /\ spawned = 0 /\ result = "Err"

====
